---------------------------- MODULE Spec2Model ----------------------------
(***************************************************************************)
(* Telemedicine AI engine: the PriorityPredictor (model/predictor.py), the *)
(* trainer (model/trainer.py) and the FastAPI service (main.py).           *)
(*                                                                         *)
(* Real-valued quantities (raw model scores, waiting_time) are fixed-point *)
(* integers counted in units of 1/Scale.  A trained XGBRegressor is an     *)
(* opaque function from feature vectors to raw scores; the model draws it  *)
(* from the small family Models.                                          *)
(***************************************************************************)
EXTENDS Integers, Sequences, FiniteSets, TLC

VARIABLES
    predictor,  \* main.py global `predictor`: 0 (None) or a reference into heap
    heap,       \* the PriorityPredictor objects: model, is_loaded
    nobj,       \* number of PriorityPredictor objects constructed so far
    disk,       \* content of model/trained_model.joblib
    phase,      \* "boot", "serving" or "crashed" (startup_event raised)
    loop,       \* the coroutine the event loop is running, or "idle"
    spc, sloc,  \* predict_priority: position and locals
    rpc, rloc,  \* retrain_model: position and locals
    saved,      \* history: the model a Loaded predictor's save_model wrote last (see SavedAfter)
    last        \* the operation that completed last, with what it saw and returned

vars == <<predictor, heap, nobj, disk, phase, loop, spc, sloc, rpc, rloc, saved, last>>

---------------------------------------------------------------------------
(* Bounds of the model *)

Scale == 10        \* fixed-point resolution: a real x is the integer x * Scale
MaxObjs == 3       \* PriorityPredictor objects the service constructs in one run
MaxLibObjs == 2    \* PriorityPredictor objects a library caller constructs
MaxSamples == 2    \* largest n_samples / training-set size passed to the library API

(* Program constants *)

RURAL_FAIRNESS_UPLIFT == 10
N_SAMPLES == 5000
CLIP_LO == 0
CLIP_HI == 100

None == "None"
Models == {"mFit", "mLow", "mHigh", "mFlat"}

\* The regressors that fits produce, and files hold, in the engine specification.
FittedModels == {"mFit", "mHigh"}

Ages == {25, 49, 50, 64, 65, 70}
Severities == {2, 4, 5, 7, 8, 9}
Flags == {0, 1}
WaitingTimes == {5 * Scale, 30 * Scale - 1, 30 * Scale, 60 * Scale - 1, 60 * Scale, 70 * Scale}

FeatureVectors ==
    [age : Ages, severity : Severities, rural : Flags, chronic : Flags,
     waiting_time : WaitingTimes]

\* The vectors the service is exercised with in the engine specification.
RequestVectors ==
    { [age |-> 70, severity |-> 9, rural |-> 1, chronic |-> 1, waiting_time |-> 70 * Scale],
      [age |-> 25, severity |-> 2, rural |-> 0, chronic |-> 0, waiting_time |-> 5 * Scale] }

---------------------------------------------------------------------------
(* PriorityPredictor.predict and _generate_explanation as pure functions *)

Min(a, b) == IF a <= b THEN a ELSE b
Max(a, b) == IF a >= b THEN a ELSE b

\* The domain formula the synthetic labels follow, without noise.
GroundTruth(fv) ==
    LET severity_score == 4 * fv.severity * Scale
        age_score == IF fv.age >= 65 THEN 20 * Scale
                     ELSE IF fv.age >= 50 THEN 10 * Scale
                     ELSE (fv.age * Scale) \div 10
        chronic_score == fv.chronic * 15 * Scale
        rural_score == fv.rural * 15 * Scale
        waiting_score == (Min(fv.waiting_time, 60 * Scale) * 10) \div 60
    IN  severity_score + age_score + chronic_score + rural_score + waiting_score

\* self.model.predict(features)[0]: the raw score of a fitted regressor.
RawPredict(m, fv) ==
    CASE m = "mFit"  -> GroundTruth(fv)
      [] m = "mLow"  -> GroundTruth(fv) - 70 * Scale - 3
      [] m = "mHigh" -> GroundTruth(fv) + 60 * Scale + 7
      [] m = "mFlat" -> 50 * Scale + 5

ApplyUpliftAlways(raw, rural) == raw + RURAL_FAIRNESS_UPLIFT * Scale

\* if rural == 1: raw_score += RURAL_FAIRNESS_UPLIFT
ApplyUplift(raw, rural) ==
    IF rural = 1 THEN raw + RURAL_FAIRNESS_UPLIFT * Scale ELSE raw

ClipUpperOnly(x, lo, hi) == Min(x, hi * Scale)

\* np.clip(raw_score, 0, 100)
Clip(x, lo, hi) == Max(lo * Scale, Min(hi * Scale, x))

\* int(x): truncation toward zero
ToInt(x) == IF x >= 0 THEN x \div Scale ELSE -((-x) \div Scale)

FactorsAgeFirst(fv) ==
    (IF fv.age >= 65 THEN <<"elderly patient">>
     ELSE IF fv.age >= 50 THEN <<"middle-aged patient">> ELSE << >>)
    \o (IF fv.severity >= 8 THEN <<"High severity">>
        ELSE IF fv.severity >= 5 THEN <<"Moderate severity">>
        ELSE <<"Low severity">>)
    \o (IF fv.rural = 1 THEN <<"rural location (fairness uplift applied)">> ELSE << >>)
    \o (IF fv.chronic = 1 THEN <<"chronic illness">> ELSE << >>)
    \o (IF fv.waiting_time >= 60 * Scale THEN <<"long wait time">>
        ELSE IF fv.waiting_time >= 30 * Scale THEN <<"moderate wait time">> ELSE << >>)

\* the list `factors` built by _generate_explanation
Factors(fv) ==
    (IF fv.severity >= 8 THEN <<"High severity">>
     ELSE IF fv.severity >= 5 THEN <<"Moderate severity">>
     ELSE <<"Low severity">>)
    \o (IF fv.age >= 65 THEN <<"elderly patient">>
        ELSE IF fv.age >= 50 THEN <<"middle-aged patient">> ELSE << >>)
    \o (IF fv.rural = 1 THEN <<"rural location (fairness uplift applied)">> ELSE << >>)
    \o (IF fv.chronic = 1 THEN <<"chronic illness">> ELSE << >>)
    \o (IF fv.waiting_time >= 60 * Scale THEN <<"long wait time">>
        ELSE IF fv.waiting_time >= 30 * Scale THEN <<"moderate wait time">> ELSE << >>)

PriorityLevelStrict(score) ==
    IF score > 80 THEN "HIGH PRIORITY"
    ELSE IF score > 50 THEN "MEDIUM PRIORITY"
    ELSE "LOW PRIORITY"

PriorityLevel(score) ==
    IF score >= 80 THEN "HIGH PRIORITY"
    ELSE IF score >= 50 THEN "MEDIUM PRIORITY"
    ELSE "LOW PRIORITY"

\* sep.join(items)
RECURSIVE StrJoin(_, _)
StrJoin(items, sep) ==
    IF Len(items) = 0 THEN ""
    ELSE IF Len(items) = 1 THEN items[1]
    ELSE items[1] \o sep \o StrJoin(Tail(items), sep)

\* the text `factor_text` built by _generate_explanation
FactorText(factors) ==
    IF Len(factors) > 1
    THEN StrJoin(SubSeq(factors, 1, Len(factors) - 1), ", ") \o ", and " \o factors[Len(factors)]
    ELSE IF Len(factors) = 1 THEN factors[1]
    ELSE "standard case"

GenerateExplanation(fv, score) ==
    PriorityLevel(score) \o ": " \o FactorText(Factors(fv))

\* The body of predict after its is_loaded check, on model m.
PredictBody(m, fv) ==
    LET raw_score == ApplyUplift(RawPredict(m, fv), fv.rural)
        priority_score == ToInt(Clip(raw_score, CLIP_LO, CLIP_HI))
    IN  [ok |-> TRUE,
         priority_score |-> priority_score,
         reason |-> GenerateExplanation(fv, priority_score),
         raw_score |-> raw_score,
         factors |-> Factors(fv),
         factor_text |-> FactorText(Factors(fv)),
         error |-> ""]

Raised(msg) ==
    [ok |-> FALSE, priority_score |-> -1, reason |-> "", raw_score |-> 0,
     factors |-> << >>, factor_text |-> "", error |-> msg]

---------------------------------------------------------------------------
(* Objects, the model file and the library operations on them *)

NoFv == [age |-> 0, severity |-> 0, rural |-> 0, chronic |-> 0, waiting_time |-> 0]
NoReads == [chk |-> 0, self |-> 0, model |-> None]
NoData == [rows |-> 0, labels |-> 0]

\* The references a run can hand out.
Refs == 1..(MaxObjs + MaxLibObjs)

\* PriorityPredictor.__init__
FreshObj == [model |-> None, is_loaded |-> FALSE]

NoFile == <<"absent", None>>
Corrupt == <<"corrupt", None>>

\* joblib.dump(model, path): the file holds the pickled model
JoblibDump(m) == <<"joblib", m>>

\* joblib.load(path): the unpickled object, or an exception
JoblibLoad(d) == [raised |-> d[1] # "joblib", obj |-> d[2]]

\* os.path.exists(model_path)
Exists(d) == d[1] # "absent"

LoadModelFlagOnly(o, d) ==
    LET r == JoblibLoad(d)
    IN  IF r.raised
        THEN [obj |-> [o EXCEPT !.is_loaded = FALSE], raised |-> TRUE]
        ELSE [obj |-> [o EXCEPT !.is_loaded = TRUE], raised |-> FALSE]

\* PriorityPredictor.load_model
LoadModel(o, d) ==
    LET r == JoblibLoad(d)
    IN  IF r.raised
        THEN [obj |-> [o EXCEPT !.is_loaded = FALSE], raised |-> TRUE]
        ELSE [obj |-> [model |-> r.obj, is_loaded |-> TRUE], raised |-> FALSE]

\* The ways writing the file can end: written, refused before any byte is
\* written (makedirs or open fails), or cut short after the file was truncated.
DumpOutcomes == {"ok", "oserror", "truncated"}

\* PriorityPredictor.save_model
SaveModel(o, d, w) ==
    IF o.model # None
    THEN CASE w = "ok"        -> [disk |-> JoblibDump(o.model), raised |-> FALSE]
           [] w = "oserror"   -> [disk |-> d, raised |-> TRUE]
           [] w = "truncated" -> [disk |-> Corrupt, raised |-> TRUE]
    ELSE [disk |-> d, raised |-> FALSE]

\* History of SaveModel: the model in the file when the last write to it was a
\* completed save_model of a Loaded predictor, None otherwise.
SavedAfter(sv, o, w) ==
    IF o.model = None \/ w = "oserror" THEN sv
    ELSE IF w = "ok" /\ o.is_loaded THEN o.model
    ELSE None

PredictUnchecked(o, fv) ==
    IF o.model = None
    THEN Raised("'NoneType' object has no attribute 'predict'")
    ELSE PredictBody(o.model, fv)

\* predict once past its is_loaded check: self.model.predict on a missing model raises
PredictLoaded(m, fv) ==
    IF m = None
    THEN Raised("'NoneType' object has no attribute 'predict'")
    ELSE PredictBody(m, fv)

\* PriorityPredictor.predict
Predict(o, fv) ==
    IF ~o.is_loaded THEN Raised("Model not loaded") ELSE PredictLoaded(o.model, fv)

\* generate_training_data(n_samples): n rows and n labels; the diagnostic
\* y.min() of line 73 raises on a zero-size array.
GenerateTrainingData(n) ==
    LET rows == n
        labels == n
    IN  IF labels = 0
        THEN [raised |-> TRUE, rows |-> 0, labels |-> 0]
        ELSE [raised |-> FALSE, rows |-> rows, labels |-> labels]

\* train_test_split(X, y, test_size=0.2): n_test = ceil(0.2 n), the rest trains;
\* an empty train set raises.
SplitOk(n) == n - ((n + 4) \div 5) > 0

\* The outcomes of XGBRegressor.fit: an exception, or a fitted regressor.
FitOutcomes == {"fail"} \cup FittedModels

\* The sizes of the training sets handed to train_model and generate_training_data.
SampleSizes == 0..MaxSamples

\* train_model lines 150-189: split, fit, evaluate
FitStage(n, f) ==
    IF ~SplitOk(n) \/ f = "fail"
    THEN [raised |-> TRUE, model |-> None]
    ELSE [raised |-> FALSE, model |-> f]

SetModelSkipped(o, m) == o

\* predictor.model = model
SetModel(o, m) == [o EXCEPT !.model = m]

\* predictor.is_loaded = True
SetLoaded(o) == [o EXCEPT !.is_loaded = TRUE]

\* train_model as one call
TrainModel(o, d, n, f, w) ==
    LET fs == FitStage(n, f)
        o2 == SetLoaded(SetModel(o, fs.model))
        s  == SaveModel(o2, d, w)
    IN  IF fs.raised
        THEN [obj |-> o, disk |-> d, raised |-> TRUE, saved |-> FALSE]
        ELSE [obj |-> o2, disk |-> s.disk, raised |-> s.raised, saved |-> TRUE]

\* What a caller sees of the predictor behind reference ref (0 is None):
\* /health's model_loaded is `predictor is not None and predictor.is_loaded`.
Snapshot(h, ref) ==
    IF ref = 0
    THEN [ref |-> 0, model |-> None, is_loaded |-> FALSE]
    ELSE [ref |-> ref, model |-> h[ref].model, is_loaded |-> h[ref].is_loaded]

Last(op, ok, status, pre, post, fv, n, out, reads, data) ==
    [op |-> op, ok |-> ok, status |-> status, pre |-> pre, post |-> post,
     fv |-> fv, n |-> n, out |-> out, reads |-> reads, data |-> data]

\* The detail of the 503 that predict_priority raises.
ModelNotLoaded503 == "ML model not loaded. Please try again later."

NoOut == Raised("")
NoSloc == [fv |-> NoFv, pre |-> Snapshot(<< >>, 0), chk |-> 0, self |-> 0]
NoRloc == [pre |-> Snapshot(<< >>, 0), arg |-> 0, model |-> None]

---------------------------------------------------------------------------
(* Scheduling: the endpoints are `async def` coroutines without any await,  *)
(* so the event loop runs each one from its first line to its response.    *)

Alive == phase # "crashed"

MayRun(h) == loop \in {"idle", h}

YieldEveryLine(h, done) == "idle"

\* The loop after a coroutine's step: it is released only by the response.
Yield(h, done) == IF done THEN "idle" ELSE h

---------------------------------------------------------------------------
(* The service: startup_event, predict_priority, retrain_model *)

Init ==
    /\ predictor = 0
    /\ heap = [i \in Refs |-> FreshObj]
    /\ nobj = 0
    /\ disk \in {NoFile, Corrupt} \cup {JoblibDump(m) : m \in FittedModels}
    /\ phase = "boot"
    /\ loop = "idle"
    /\ spc = "idle" /\ sloc = NoSloc
    /\ rpc = "idle" /\ rloc = NoRloc
    /\ saved = None
    /\ last = Last("none", TRUE, 0, Snapshot(heap, 0), Snapshot(heap, 0),
                   NoFv, 0, NoOut, NoReads, NoData)

\* startup_event: a fresh predictor, loaded from the file when it exists and
\* trained on synthetic data otherwise; an exception ends the process.
Startup(f, w) ==
    /\ phase = "boot" /\ predictor = 0 /\ loop = "idle" /\ nobj < MaxObjs
    /\ (Exists(disk) \/ f = "fail") => w = "ok"    \* nothing is written: one case
    /\ Exists(disk) => f = "fail"                  \* nothing is fitted: one case
    /\ LET new == nobj + 1
           ld  == LoadModel(FreshObj, disk)
           g   == GenerateTrainingData(N_SAMPLES)
           t   == TrainModel(FreshObj, disk, g.rows, f, w)
           viaLoad == Exists(disk)
           obj == IF viaLoad THEN ld.obj ELSE t.obj
           raised == IF viaLoad THEN ld.raised ELSE (g.raised \/ t.raised)
       IN  /\ predictor' = new
           /\ nobj' = new
           /\ heap' = [heap EXCEPT ![new] = obj]
           /\ disk' = IF viaLoad THEN disk ELSE t.disk
           /\ saved' = IF viaLoad \/ ~t.saved THEN saved
                       ELSE SavedAfter(saved, t.obj, w)
           /\ phase' = IF raised THEN "crashed" ELSE "serving"
           /\ last' = Last("startup", ~raised, 0, Snapshot(heap, 0),
                           Snapshot(heap', new), NoFv, N_SAMPLES, NoOut, NoReads, NoData)
    /\ UNCHANGED <<loop, spc, sloc, rpc, rloc>>

ScoreRespond(status, out, pre, fv, reads) ==
    /\ last' = Last("score", out.ok, status, pre, Snapshot(heap, predictor),
                    fv, 0, out, reads, NoData)
    /\ spc' = "idle"
    /\ sloc' = NoSloc
    /\ loop' = Yield("score", TRUE)

\* predict_priority, line 163: the guard on the global predictor
Score163(fv) ==
    /\ Alive /\ spc = "idle" /\ MayRun("score")
    /\ IF predictor = 0 \/ ~heap[predictor].is_loaded
       THEN ScoreRespond(503, Raised(ModelNotLoaded503),
                         Snapshot(heap, predictor), fv, NoReads)
       ELSE /\ spc' = "l171"
            /\ sloc' = [fv |-> fv, pre |-> Snapshot(heap, predictor),
                        chk |-> predictor, self |-> 0]
            /\ loop' = Yield("score", FALSE)
            /\ UNCHANGED last
    /\ UNCHANGED <<predictor, heap, nobj, disk, phase, rpc, rloc, saved>>

\* line 171 calls predictor.predict on the global; predict line 104 checks is_loaded
Score171 ==
    /\ spc = "l171" /\ MayRun("score")
    /\ LET self == predictor
           reads == [chk |-> sloc.chk, self |-> self, model |-> None]
       IN  IF self = 0
           THEN ScoreRespond(500,
                    Raised("Prediction failed: 'NoneType' object has no attribute 'predict'"),
                    sloc.pre, sloc.fv, reads)
           ELSE IF ~heap[self].is_loaded
           THEN ScoreRespond(500, Raised("Prediction failed: Model not loaded"),
                             sloc.pre, sloc.fv, reads)
           ELSE /\ spc' = "l111"
                /\ sloc' = [sloc EXCEPT !.self = self]
                /\ loop' = Yield("score", FALSE)
                /\ UNCHANGED last
    /\ UNCHANGED <<predictor, heap, nobj, disk, phase, rpc, rloc, saved>>

\* predict lines 108-134 and the response of lines 179-188
Score111 ==
    /\ spc = "l111" /\ MayRun("score")
    /\ LET m == heap[sloc.self].model
           out == PredictLoaded(m, sloc.fv)
           reads == [chk |-> sloc.chk, self |-> sloc.self, model |-> m]
       IN  IF out.ok
           THEN ScoreRespond(200, out, sloc.pre, sloc.fv, reads)
           ELSE ScoreRespond(500, Raised("Prediction failed: " \o out.error),
                             sloc.pre, sloc.fv, reads)
    /\ UNCHANGED <<predictor, heap, nobj, disk, phase, rpc, rloc, saved>>

RetrainRespond(ok) ==
    /\ last' = Last("retrain", ok, IF ok THEN 200 ELSE 500, rloc.pre,
                    Snapshot(heap, predictor), NoFv, N_SAMPLES, NoOut, NoReads, NoData)
    /\ rpc' = "idle"
    /\ rloc' = NoRloc
    /\ loop' = Yield("retrain", TRUE)

\* retrain_model, line 201: predictor = PriorityPredictor()
Retrain201 ==
    /\ Alive /\ rpc = "idle" /\ MayRun("retrain") /\ nobj < MaxObjs
    /\ LET new == nobj + 1
       IN  /\ predictor' = new
           /\ nobj' = new
           /\ heap' = [heap EXCEPT ![new] = FreshObj]
    /\ rloc' = [pre |-> Snapshot(heap, predictor), arg |-> 0, model |-> None]
    /\ rpc' = "l202"
    /\ loop' = Yield("retrain", FALSE)
    /\ UNCHANGED <<disk, phase, spc, sloc, saved, last>>

\* lines 202-204 and train_model up to line 189: synthesize, split, fit
Retrain202(f) ==
    /\ rpc = "l202" /\ MayRun("retrain")
    /\ LET g == GenerateTrainingData(N_SAMPLES)
           fs == FitStage(g.rows, f)
       IN  IF g.raised \/ fs.raised
           THEN RetrainRespond(FALSE)
           ELSE /\ rloc' = [rloc EXCEPT !.arg = predictor, !.model = fs.model]
                /\ rpc' = "l192"
                /\ loop' = Yield("retrain", FALSE)
                /\ UNCHANGED last
    /\ UNCHANGED <<predictor, heap, nobj, disk, phase, spc, sloc, saved>>

\* train_model line 192
Retrain192 ==
    /\ rpc = "l192" /\ MayRun("retrain")
    /\ heap' = [heap EXCEPT ![rloc.arg] = SetModel(@, rloc.model)]
    /\ rpc' = "l193"
    /\ loop' = Yield("retrain", FALSE)
    /\ UNCHANGED <<predictor, nobj, disk, phase, spc, sloc, rloc, saved, last>>

\* train_model line 193
Retrain193 ==
    /\ rpc = "l193" /\ MayRun("retrain")
    /\ heap' = [heap EXCEPT ![rloc.arg] = SetLoaded(@)]
    /\ rpc' = "l196"
    /\ loop' = Yield("retrain", FALSE)
    /\ UNCHANGED <<predictor, nobj, disk, phase, spc, sloc, rloc, saved, last>>

\* train_model lines 196-197 and the response of lines 206-212
Retrain196(w) ==
    /\ rpc = "l196" /\ MayRun("retrain")
    /\ LET s == SaveModel(heap[rloc.arg], disk, w)
       IN  /\ disk' = s.disk
           /\ saved' = SavedAfter(saved, heap[rloc.arg], w)
           /\ UNCHANGED <<predictor, heap>>
           /\ RetrainRespond(~s.raised)
    /\ UNCHANGED <<nobj, phase, spc, sloc>>

---------------------------------------------------------------------------
(* The package used as a library: model/__init__.py exports the predictor  *)
(* class, train_model and generate_training_data.  The calls are           *)
(* synchronous; in the service's process they run between two coroutines.  *)
(* Next lets load_model and predict be called on the service's predictors; *)
(* NextLib is the package without the service.                             *)

Objs == 1..nobj

ApiIdle == Alive /\ loop = "idle"

ApiNew ==
    /\ ApiIdle /\ nobj < MaxLibObjs
    /\ nobj' = nobj + 1
    /\ heap' = [heap EXCEPT ![nobj + 1] = FreshObj]
    /\ last' = Last("new", TRUE, 0, Snapshot(heap, 0), Snapshot(heap', nobj + 1),
                    NoFv, 0, NoOut, NoReads, NoData)
    /\ UNCHANGED <<predictor, disk, phase, loop, spc, sloc, rpc, rloc, saved>>

ApiLoad(p) ==
    /\ ApiIdle /\ p \in Objs
    /\ LET r == LoadModel(heap[p], disk)
       IN  /\ heap' = [heap EXCEPT ![p] = r.obj]
           /\ last' = Last("load", ~r.raised, 0, Snapshot(heap, p), Snapshot(heap', p),
                           NoFv, 0, NoOut, NoReads, NoData)
    /\ UNCHANGED <<predictor, nobj, disk, phase, loop, spc, sloc, rpc, rloc, saved>>

ApiSave(p, w) ==
    /\ ApiIdle /\ p \in Objs
    /\ heap[p].model = None => w = "ok"            \* nothing is written: one case
    /\ LET s == SaveModel(heap[p], disk, w)
       IN  /\ disk' = s.disk
           /\ saved' = SavedAfter(saved, heap[p], w)
           /\ last' = Last("save", ~s.raised, 0, Snapshot(heap, p), Snapshot(heap, p),
                           NoFv, 0, NoOut, NoReads, NoData)
    /\ UNCHANGED <<predictor, heap, nobj, phase, loop, spc, sloc, rpc, rloc>>

ApiTrain(p, n, f, w) ==
    /\ ApiIdle /\ p \in Objs
    /\ (~SplitOk(n) \/ f = "fail") => w = "ok"     \* nothing is written: one case
    /\ ~SplitOk(n) => f = "fail"                   \* nothing is fitted: one case
    /\ LET t == TrainModel(heap[p], disk, n, f, w)
       IN  /\ heap' = [heap EXCEPT ![p] = t.obj]
           /\ disk' = t.disk
           /\ saved' = IF t.saved THEN SavedAfter(saved, t.obj, w) ELSE saved
           /\ last' = Last("train", ~t.raised, 0, Snapshot(heap, p), Snapshot(heap', p),
                           NoFv, n, NoOut, NoReads, NoData)
    /\ UNCHANGED <<predictor, nobj, phase, loop, spc, sloc, rpc, rloc>>

ApiPredict(p, fv) ==
    /\ ApiIdle /\ p \in Objs
    /\ LET out == Predict(heap[p], fv)
       IN  last' = Last("predict", out.ok, 0, Snapshot(heap, p), Snapshot(heap, p),
                        fv, 0, out, [chk |-> p, self |-> p, model |-> heap[p].model], NoData)
    /\ UNCHANGED <<predictor, heap, nobj, disk, phase, loop, spc, sloc, rpc, rloc, saved>>

ApiGenerate(n) ==
    /\ ApiIdle
    /\ LET g == GenerateTrainingData(n)
       IN  last' = Last("generate", ~g.raised, 0, Snapshot(heap, 0), Snapshot(heap, 0),
                        NoFv, n, NoOut, NoReads, [rows |-> g.rows, labels |-> g.labels])
    /\ UNCHANGED <<predictor, heap, nobj, disk, phase, loop, spc, sloc, rpc, rloc, saved>>

Next ==
    \/ \E f \in FitOutcomes, w \in DumpOutcomes : Startup(f, w)
    \/ \E fv \in RequestVectors : Score163(fv)
    \/ Score171
    \/ Score111
    \/ Retrain201
    \/ \E f \in FitOutcomes : Retrain202(f)
    \/ Retrain192
    \/ Retrain193
    \/ \E w \in DumpOutcomes : Retrain196(w)
    \/ \E p \in Refs : ApiLoad(p)
    \/ \E p \in Refs, fv \in RequestVectors : ApiPredict(p, fv)

Spec == Init /\ [][Next]_vars

---------------------------------------------------------------------------
(* The package on its own: a caller constructs predictors and loads, saves, *)
(* trains and queries them; no service runs.                               *)

NextLib ==
    \/ ApiNew
    \/ \E p \in Refs : ApiLoad(p)
    \/ \E p \in Refs, w \in DumpOutcomes : ApiSave(p, w)
    \/ \E p \in Refs, n \in SampleSizes, f \in FitOutcomes, w \in DumpOutcomes :
           ApiTrain(p, n, f, w)
    \/ \E p \in Refs, fv \in RequestVectors : ApiPredict(p, fv)

SpecLib == Init /\ [][NextLib]_vars

---------------------------------------------------------------------------
(* predict as a pure function: one loaded predictor, every feature vector *)

InitScore ==
    /\ predictor = 1
    /\ \E m \in Models : heap = [i \in Refs |->
                                   IF i = 1 THEN [model |-> m, is_loaded |-> TRUE] ELSE FreshObj]
    /\ nobj = 1
    /\ disk = NoFile
    /\ phase = "serving"
    /\ loop = "idle"
    /\ spc = "idle" /\ sloc = NoSloc
    /\ rpc = "idle" /\ rloc = NoRloc
    /\ saved = None
    /\ last = Last("none", TRUE, 0, Snapshot(heap, 0), Snapshot(heap, 0),
                   NoFv, 0, NoOut, NoReads, NoData)

\* One call per behaviour: the inputs are drawn, predict is applied, the result stays.
NextScore ==
    /\ last.op = "none"
    /\ \/ \E fv \in FeatureVectors : ApiPredict(1, fv)
       \/ \E n \in SampleSizes \cup {N_SAMPLES} : ApiGenerate(n)

SpecScore == InitScore /\ [][NextScore]_vars

---------------------------------------------------------------------------
(* Claims *)

\* C1: whenever a train/retrain request ends in failure, the model that was
\* active before the request is still active afterwards: an engine that was
\* Loaded is still Loaded with the same model, and a following score request
\* succeeds with the same result as before.
C1_FailedRetrainKeepsModel ==
    (last.op = "retrain" /\ ~last.ok /\ last.pre.is_loaded)
        => /\ last.post.is_loaded
           /\ last.post.model = last.pre.model
           /\ \A fv \in RequestVectors : Predict(last.post, fv) = Predict(last.pre, fv)

\* C2: a score request made while no model is loaded fails with a
\* model-not-loaded error and returns neither a priority score nor a reason,
\* both from PriorityPredictor.predict and from the /predict endpoint.
C2_UnloadedScoreFails ==
    (last.op \in {"score", "predict"} /\ ~last.pre.is_loaded)
        => /\ ~last.ok
           /\ ~last.out.ok
           /\ last.out.priority_score = Raised("").priority_score
           /\ last.out.reason = ""
           /\ last.op = "predict" => last.out.error = "Model not loaded"
           /\ last.op = "score" => (last.status = 503 /\ last.out.error = ModelNotLoaded503)

\* The endpoint answers 503 while the global holds a predictor that is not loaded.
C2_Witness ==
    last.op = "score" /\ last.pre.ref # 0 /\ ~last.pre.is_loaded /\ last.status = 503

\* C3: once the scoring engine has been Loaded it is never observed Unloaded
\* again: no operation, successful or failing, takes a Loaded engine to
\* Unloaded.
C3_LoadedStaysLoaded ==
    (loop = "idle" /\ last.pre.is_loaded) => last.post.is_loaded

\* C4: for every feature vector and every loaded model, whatever raw value
\* the model returns, the returned priority_score is an integer in 0..100.
C4_ScoreClamped ==
    (last.op = "predict" /\ last.ok) => last.out.priority_score \in CLIP_LO..CLIP_HI

\* A negative, fractional pre-clamp score was clamped.
C4_Witness ==
    /\ last.op = "predict" /\ last.ok
    /\ last.out.raw_score < 0 /\ last.out.raw_score % Scale # 0
    /\ last.out.priority_score = 0

WithRural(fv, r) == [fv EXCEPT !.rural = r]

\* The pre-clamp score of the call recorded in `last` when fv is the vector it
\* was made with, and of the same predictor on any other vector.
PreClamp(fv) ==
    IF fv = last.fv THEN last.out.raw_score
    ELSE PredictBody(last.pre.model, fv).raw_score

\* C5 as stated: for a fixed model and two feature vectors that differ only
\* in rural, the pre-clamp score of the rural=1 vector is exactly 10 higher
\* than that of the rural=0 vector.
C5_RuralExactlyTenHigher ==
    (last.op = "predict" /\ last.ok)
        => PreClamp(WithRural(last.fv, 1))
             = PreClamp(WithRural(last.fv, 0)) + RURAL_FAIRNESS_UPLIFT * Scale

\* C5 amended: the pre-clamp scores of the two vectors differ by exactly 10
\* plus the difference of the model's own raw outputs on the two vectors (the
\* model receives rural as a feature), so by exactly 10 only for a model whose
\* raw output does not depend on rural.
C5_UpliftOverRawModel ==
    (last.op = "predict" /\ last.ok)
        => LET fv1 == WithRural(last.fv, 1)
               fv0 == WithRural(last.fv, 0)
               m == last.pre.model
           IN  PreClamp(fv1) - PreClamp(fv0)
                 = RURAL_FAIRNESS_UPLIFT * Scale + (RawPredict(m, fv1) - RawPredict(m, fv0))

\* A rural vector scored by a model whose raw output depends on rural.
C5_Witness ==
    /\ last.op = "predict" /\ last.ok /\ last.fv.rural = 1
    /\ RawPredict(last.pre.model, last.fv) # RawPredict(last.pre.model, WithRural(last.fv, 0))

\* The join the specification describes: "A", "A and B", "A, B, and C".
SpecJoin(fs) ==
    IF Len(fs) = 1 THEN fs[1]
    ELSE IF Len(fs) = 2 THEN fs[1] \o " and " \o fs[2]
    ELSE StrJoin(SubSeq(fs, 1, Len(fs) - 1), ", ") \o ", and " \o fs[Len(fs)]

\* C6: one factor is joined as "A", exactly two factors as "A and B" (no
\* comma), three or more as the comma-separated list with ", and " before the
\* last item.
C6_JoinAsSpecified ==
    (last.op = "predict" /\ last.ok)
        => /\ last.out.factor_text = SpecJoin(last.out.factors)
           /\ last.out.reason
                = PriorityLevel(last.out.priority_score) \o ": " \o SpecJoin(last.out.factors)

FactorOrder ==
    << "High severity", "Moderate severity", "Low severity",
       "elderly patient", "middle-aged patient",
       "rural location (fairness uplift applied)",
       "chronic illness",
       "long wait time", "moderate wait time" >>

FactorHolds(fv, name) ==
    CASE name = "High severity" -> fv.severity >= 8
      [] name = "Moderate severity" -> fv.severity >= 5 /\ fv.severity < 8
      [] name = "Low severity" -> fv.severity < 5
      [] name = "elderly patient" -> fv.age >= 65
      [] name = "middle-aged patient" -> fv.age >= 50 /\ fv.age < 65
      [] name = "rural location (fairness uplift applied)" -> fv.rural = 1
      [] name = "chronic illness" -> fv.chronic = 1
      [] name = "long wait time" -> fv.waiting_time >= 60 * Scale
      [] name = "moderate wait time" ->
             fv.waiting_time >= 30 * Scale /\ fv.waiting_time < 60 * Scale

\* C7: the factors appear in the fixed order severity bucket, age bucket,
\* rural, chronic, wait-time bucket, each present exactly under its
\* threshold condition; the severity bucket is always present and first, no
\* other factor appears and the list is never empty.
C7_FactorsInOrder ==
    (last.op = "predict" /\ last.ok)
        => /\ last.out.factors = SelectSeq(FactorOrder, LAMBDA x : FactorHolds(last.fv, x))
           /\ Len(last.out.factors) >= 1
           /\ last.out.factors[1] \in {"High severity", "Moderate severity", "Low severity"}

\* A vector for which all five buckets contribute.
C7_Witness ==
    last.op = "predict" /\ last.ok /\ Len(last.out.factors) = 5

\* C8: the data synthesizer succeeds without raising for every n_samples >= 0,
\* and for n_samples = 0 it returns an empty feature collection and an empty
\* label collection.
C8_SynthesizerSucceeds ==
    (last.op = "generate" /\ last.n >= 0)
        => /\ last.ok
           /\ last.data.rows = last.n
           /\ last.data.labels = last.n

\* C9: a score request interleaved with retrains computes its result from
\* exactly one complete model, the one active before or after the swap: the
\* is_loaded flag it checked and the model it evaluated belong to the same
\* predictor, that predictor was Loaded, and the result is that model's.
C9_ScoreReadsOneModel ==
    (last.op = "score" /\ last.status = 200)
        => /\ last.reads.chk = last.reads.self
           /\ last.reads.model # None
           /\ \/ last.reads.self = last.pre.ref /\ last.reads.model = last.pre.model
                                               /\ last.pre.is_loaded
              \/ last.reads.self = last.post.ref /\ last.reads.model = last.post.model
                                                /\ last.post.is_loaded
           /\ last.out = PredictBody(last.reads.model, last.fv)

\* A score request answered after the service replaced its predictor.
C9_Witness ==
    last.op = "score" /\ last.status = 200 /\ last.pre.ref >= 2

Levels == {"HIGH PRIORITY", "MEDIUM PRIORITY", "LOW PRIORITY"}

\* C11: the priority-level prefix of the reason depends only on the clamped
\* score returned in the same result: "HIGH PRIORITY" iff priority_score >= 80,
\* "MEDIUM PRIORITY" iff 50 <= priority_score < 80, "LOW PRIORITY" iff
\* priority_score < 50, and the reason has the form "<LEVEL>: <factor list>".
C11_PrefixFromClampedScore ==
    (last.op = "predict" /\ last.ok)
        => \E level \in Levels :
             /\ last.out.reason = level \o ": " \o last.out.factor_text
             /\ level = "HIGH PRIORITY" <=> last.out.priority_score >= 80
             /\ level = "MEDIUM PRIORITY"
                  <=> (last.out.priority_score >= 50 /\ last.out.priority_score < 80)
             /\ level = "LOW PRIORITY" <=> last.out.priority_score < 50

\* A result whose clamped score sits on the HIGH threshold.
C11_Witness ==
    /\ last.op = "predict" /\ last.ok
    /\ last.out.priority_score = 80
    /\ last.out.reason = "HIGH PRIORITY: " \o last.out.factor_text

NoModelError == "'NoneType' object has no attribute 'predict'"

\* C12: in every state reachable through the constructor, load_model,
\* save_model, train_model and predict, calls that raise included, a predictor
\* whose is_loaded is true holds a model, so predict never dereferences a
\* missing model after passing its is_loaded check.
C12_LoadedHasModel ==
    /\ \A p \in Refs : heap[p].is_loaded => heap[p].model # None
    /\ last.op = "predict" => last.out.error # NoModelError
    /\ last.op = "score" => last.out.error # "Prediction failed: " \o NoModelError

\* predict passed its check and answered while another predictor, whose
\* load_model raised, keeps a model with is_loaded false.
C12_Witness ==
    /\ loop = "idle"
    /\ last.op = "predict" /\ last.ok /\ last.pre.is_loaded
    /\ \E q \in Refs : ~heap[q].is_loaded /\ heap[q].model # None

=============================================================================
